---- MODULE Spec2Model ----
(***************************************************************************)
(* Purchase-order inbox pipeline: the run loop of workflow.py, the         *)
(* workflow graph (classifier -> parser -> retriever -> grounding gate ->  *)
(* decider -> fulfiller | rejector), the business rules of RetrievedItem / *)
(* RetrievedPO, the capture of search results as evidence, and the         *)
(* blocking Slack approval gate.                                           *)
(*                                                                         *)
(* The chat agents are modelled as executing the instructions and tool     *)
(* lists given to them in the source; external services (Gmail, Slack,     *)
(* Airtable, Azure) answer nondeterministically.                           *)
(*                                                                         *)
(* Money is in integer cents, VAT rates in percent; unit prices are whole  *)
(* euros so that subtotal * vat_rate is exact.                             *)
(***************************************************************************)
EXTENDS Integers, Sequences, FiniteSets, TLC

\* ------------------------------------------------------------------------
\* Bounds of the model
\* ------------------------------------------------------------------------
MaxMsgs == 3
MaxReplies == 2
MaxRestarts == 1
MaxItems == 2
MaxQty == 2
MaxMail == 2

\* ------------------------------------------------------------------------
\* Program constants
\* ------------------------------------------------------------------------
Timeout == 60
PollInterval == 2
ShippingFee == 2500
StarterCreditLimit == 300000
FirstCustomerNo == 5000

\* ------------------------------------------------------------------------
\* Text: a str is a sequence of one-character strings
\* ------------------------------------------------------------------------
UpperToLower ==
    [c \in {"A","D","E","N","O","P","R","V","Y","S"} |->
        CASE c = "A" -> "a" [] c = "D" -> "d" [] c = "E" -> "e"
          [] c = "N" -> "n" [] c = "O" -> "o" [] c = "P" -> "p"
          [] c = "R" -> "r" [] c = "V" -> "v" [] c = "Y" -> "y"
          [] c = "S" -> "s"]

\* str.lower(), character by character
LowerCharKeepCase(c) == c

LowerChar(c) == IF c \in DOMAIN UpperToLower THEN UpperToLower[c] ELSE c

Lower(text) == [i \in 1..Len(text) |-> LowerChar(text[i])]

IsSpace(c) == c \in {" ", "\t", "\n"}

RECURSIVE LStrip(_)
LStrip(text) ==
    IF text # <<>> /\ IsSpace(Head(text)) THEN LStrip(Tail(text)) ELSE text

RECURSIVE RStrip(_)
RStrip(text) ==
    IF text # <<>> /\ IsSpace(text[Len(text)])
    THEN RStrip(SubSeq(text, 1, Len(text) - 1))
    ELSE text

\* str.strip()
Strip(text) == RStrip(LStrip(text))

\* \w of the re module, over the characters the model uses
IsWordChar(c) ==
    c \in {"a","b","c","d","e","f","g","h","i","j","k","l","m","n","o","p",
           "q","r","s","t","u","v","w","x","y","z",
           "A","D","E","N","O","P","R","V","Y","S","_"}

\* re.search(rf"\b{keyword}\b", text) matching at position i: the keyword
\* occurs there and is not continued by a word character on either side
MatchAtSubstring(keyword, text, i) ==
    /\ i + Len(keyword) - 1 <= Len(text)
    /\ \A k \in 1..Len(keyword) : text[i + k - 1] = keyword[k]

\* re.search(rf"\b{re.escape(keyword)}\b", text) matching at position i
MatchAt(keyword, text, i) ==
    /\ i + Len(keyword) - 1 <= Len(text)
    /\ \A k \in 1..Len(keyword) : text[i + k - 1] = keyword[k]
    /\ (i = 1 \/ ~IsWordChar(text[i - 1]))
    /\ (i + Len(keyword) - 1 = Len(text) \/ ~IsWordChar(text[i + Len(keyword)]))

_has_keyword(keywords, text) ==
    \E keyword \in keywords : \E i \in 1..Len(text) : MatchAt(keyword, text, i)

approve_keywords ==
    { <<"a","p","p","r","o","v","e">>, <<"a","p","p","r","o","v","e","d">>,
      <<"y","e","s">>, <<"y">>, <<"y","e","p">>, <<"j","a">>,
      <<"c","o","n","f","i","r","m">> }

deny_keywords ==
    { <<"d","e","n","y">>, <<"d","e","n","i","e","d">>,
      <<"r","e","j","e","c","t">>, <<"r","e","j","e","c","t","e","d">>,
      <<"n","o">>, <<"n">>, <<"n","o","p","e">> }

\* The closing line of the approval request, which names both reply words
\* (the quoting character around them is written * here)
RequestText ==
    <<"R","e","p","l","y"," ","*","a","p","p","r","o","v","e","*"," ",
      "o","r"," ","*","d","e","n","y","*">>

\* Replies an approver may type into the thread
ReplyTexts ==
    { <<"A","P","P","R","O","V","E">>,
      <<" ","D","e","n","y">>,
      <<"n","o"," ","a","p","p","r","o","v","e">>,
      <<"o","k"," ","t","h","a","n","k","s">>,
      <<"d","i","s","a","p","p","r","o","v","e","d">> }

\* The text the loop matches against: msg.get("text", "").strip().lower()
Normalize(text) == Lower(Strip(text))

\* Verdict of one reply: approve is tested before deny
ReplyVerdict(text) ==
    IF _has_keyword(approve_keywords, Normalize(text)) THEN "approve"
    ELSE IF _has_keyword(deny_keywords, Normalize(text)) THEN "deny"
    ELSE "none"

\* ReplyVerdict tabulated over the texts that occur in a thread
VerdictOf == [text \in ReplyTexts \cup {RequestText} |-> ReplyVerdict(text)]

\* for msg in messages: the first reply with a verdict decides
RECURSIVE ScanMessages(_)
ScanMessages(messages) ==
    IF messages = <<>> THEN "none"
    ELSE IF VerdictOf[Head(messages)] # "none" THEN VerdictOf[Head(messages)]
    ELSE ScanMessages(Tail(messages))

\* for msg in messages[1:]: the approval request itself is skipped
ScanThreadLastWins(messages) ==
    LET decisive == { i \in 2..Len(messages) : VerdictOf[messages[i]] # "none" }
    IN  IF decisive = {} THEN "none"
        ELSE VerdictOf[messages[CHOOSE i \in decisive : \A j \in decisive : j <= i]]

ScanThread(messages) ==
    IF messages = <<>> THEN "none" ELSE ScanMessages(Tail(messages))

\* ------------------------------------------------------------------------
\* Business rules: RetrievedItem and RetrievedPO model validators
\* ------------------------------------------------------------------------
RECURSIVE SumSeq(_)
SumSeq(xs) == IF xs = <<>> THEN 0 ELSE Head(xs) + SumSeq(Tail(xs))

_set_computed_fields_unit_price(item) ==
    [item EXCEPT
        !.product_in_stock = item.product_qty_available >= item.ordered_qty,
        !.subtotal = item.unit_price]

\* RetrievedItem._set_computed_fields
_set_computed_fields(item) ==
    [item EXCEPT
        !.product_in_stock = item.product_qty_available >= item.ordered_qty,
        !.subtotal = item.ordered_qty * item.unit_price]

\* tax = sum(item.subtotal * item.vat_rate), the rate being a percentage here
TaxOf(items) ==
    SumSeq([i \in 1..Len(items) |-> (items[i].subtotal * items[i].vat_rate) \div 100])

SubtotalOf(items) == SumSeq([i \in 1..Len(items) |-> items[i].subtotal])

_set_totals_flat_shipping(p, search_evidence) ==
    LET avail    == p.customer_overall_credit_limit - p.customer_open_ar
        tax      == TaxOf(p.items)
        shipping == ShippingFee
        subtotal == SubtotalOf(p.items)
        total    == subtotal + tax + shipping
    IN  [p EXCEPT
            !.customer_available_credit = avail,
            !.tax = tax,
            !.shipping = shipping,
            !.subtotal = subtotal,
            !.order_total = total,
            !.customer_can_order_with_credit = avail >= total,
            !.retrieval_evidence = search_evidence]

\* RetrievedPO._set_totals; search_evidence is the module-level list the
\* validator copies, the one retriever.py imports from agents.tool_capture
_set_totals(p, search_evidence) ==
    LET avail    == p.customer_overall_credit_limit - p.customer_open_ar
        tax      == TaxOf(p.items)
        shipping == IF SubtotalOf(p.items) > 0 THEN ShippingFee ELSE 0
        subtotal == SubtotalOf(p.items)
        total    == subtotal + tax + shipping
    IN  [p EXCEPT
            !.customer_available_credit = avail,
            !.tax = tax,
            !.shipping = shipping,
            !.subtotal = subtotal,
            !.order_total = total,
            !.customer_can_order_with_credit = avail >= total,
            !.retrieval_evidence = search_evidence]

\* A RetrievedPO whose item validators did not run
RetrievedPOKeepingItems(raw, search_evidence) == _set_totals(raw, search_evidence)

\* Construction of a RetrievedPO from the fields of the retriever's output:
\* pydantic validates the items first, then the order; the validators run
\* here and nowhere else (ConfigDict sets extra="forbid" only)
RetrievedPO(raw, search_evidence) ==
    _set_totals(
        [raw EXCEPT !.items = [i \in 1..Len(raw.items) |-> _set_computed_fields(raw.items[i])]],
        search_evidence)

\* What the retriever's output may carry in the fields the validators assign:
\* the defaults, or values of the model's own making
DefaultDerived == [in_stock |-> FALSE, amount |-> 0, flag |-> FALSE, evidence |-> <<>>]

SuppliedDerived ==
    { DefaultDerived,
      [in_stock |-> TRUE, amount |-> 77700, flag |-> TRUE,
       evidence |-> << [index |-> "model", key |-> "made-up"] >>] }

\* The structured output of the retriever, before validation
RetrieverOutput(email_id, customer_id, limit, open_ar, rawItems, sup) ==
    [email_id |-> email_id,
     customer_id |-> customer_id,
     customer_overall_credit_limit |-> limit,
     customer_open_ar |-> open_ar,
     customer_available_credit |-> sup.amount,
     items |-> [i \in 1..Len(rawItems) |->
                  [rawItems[i] EXCEPT !.product_in_stock = sup.in_stock,
                                      !.subtotal = sup.amount]],
     tax |-> sup.amount,
     shipping |-> sup.amount,
     subtotal |-> sup.amount,
     order_total |-> sup.amount,
     customer_can_order_with_credit |-> sup.flag,
     retrieval_evidence |-> sup.evidence]

RawItem(sku, avail, qty, price, vat) ==
    [product_sku |-> sku,
     product_qty_available |-> avail,
     ordered_qty |-> qty,
     unit_price |-> price,
     vat_rate |-> vat,
     product_in_stock |-> FALSE,
     subtotal |-> 0]

\* ------------------------------------------------------------------------
\* Decider: the decision criteria of its instructions
\* ------------------------------------------------------------------------
AllInStock(p) == \A i \in 1..Len(p.items) : p.items[i].product_in_stock

IsPlaceholderCustomerNever(p) == FALSE

IsPlaceholderCustomer(p) == p.customer_id = "NEW"

DeciderStatusIgnoringStock(p) ==
    IF p.customer_can_order_with_credit \/ IsPlaceholderCustomer(p)
    THEN "FULFILLABLE" ELSE "UNFULFILLABLE"

\* 1. every item in stock; 2. credit sufficient; 3. a placeholder customer
\* is still FULFILLABLE (the fulfiller creates the customer record)
DeciderStatus(p) ==
    IF AllInStock(p) /\ (p.customer_can_order_with_credit \/ IsPlaceholderCustomer(p))
    THEN "FULFILLABLE" ELSE "UNFULFILLABLE"

DeciderReason(p) ==
    IF ~AllInStock(p) THEN "Item out of stock"
    ELSE IF ~(p.customer_can_order_with_credit \/ IsPlaceholderCustomer(p))
         THEN "Insufficient credit"
    ELSE "All checks passed"

Decision(p) ==
    [status |-> DeciderStatus(p), reason |-> DeciderReason(p), input_payload |-> p]

\* ------------------------------------------------------------------------
\* The world around the pipeline: inbox content, catalog, record store
\* ------------------------------------------------------------------------
Msgs == 1..MaxMsgs

\* What the purchase-order emails ask for (message m carries request m, cyclically)
Requests ==
    << [customer_name |-> "Acme",
        lines |-> << [sku |-> "A", qty |-> 1], [sku |-> "B", qty |-> 1] >>],
       [customer_name |-> "NewCo",
        lines |-> << [sku |-> "A", qty |-> 1] >>],
       [customer_name |-> "Acme",
        lines |-> << [sku |-> "A", qty |-> 9] >>] >>

RequestOf(m) == Requests[((m - 1) % Len(Requests)) + 1]

\* Messages beside the purchase orders: one sent from the account itself,
\* one whose body check_email_prompt_injection reports as an attack, one
\* whose body check_email_content_safety reports as unsafe. A higher id is
\* a more recent message.
SelfMsg == MaxMsgs + 1

InjectionMsg == MaxMsgs + 2

UnsafeMsg == MaxMsgs + 3

\* sender_email == account_email
FromAccount(m) == m = SelfMsg

check_email_prompt_injection(m) == [is_attack |-> m = InjectionMsg]

check_email_content_safety(m) == [is_safe |-> m # UnsafeMsg]

\* os.getenv(name, default) on a variable that is unset ("") or set
getenv(value, default) == IF value = "" THEN default ELSE value

SKUs == {"A", "B"}

Catalog ==
    [sku \in SKUs |->
        IF sku = "A" THEN [unit_price |-> 1000, vat_rate |-> 19]
                     ELSE [unit_price |-> 2000, vat_rate |-> 7]]

InitialStock == [sku \in SKUs |-> 3]

CustIds == <<"C-5001", "C-5002", "C-5003", "C-5004", "C-5005", "C-5006">>

InitialCustomers ==
    << [customer_id |-> "C-5001", name |-> "Acme",
        credit_limit |-> 2000000, open_ar |-> 0] >>

IdNo(id) == FirstCustomerNo + (CHOOSE k \in 1..Len(CustIds) : CustIds[k] = id)

Max(S) == CHOOSE x \in S : \A y \in S : y <= x

\* Index of the first row matching, or 0 (the loops over all_customers)
RowByName(rows, name) ==
    IF \E k \in 1..Len(rows) : rows[k].name = name
    THEN CHOOSE k \in 1..Len(rows) :
            rows[k].name = name /\ \A j \in 1..(k - 1) : rows[j].name # name
    ELSE 0

RowById(rows, id) ==
    IF \E k \in 1..Len(rows) : rows[k].customer_id = id
    THEN CHOOSE k \in 1..Len(rows) :
            rows[k].customer_id = id /\ \A j \in 1..(k - 1) : rows[j].customer_id # id
    ELSE 0

\* add_new_customer: new_id = C-(max existing number + 1)
NewCustomerRow(rows, name) ==
    LET max_id == Max({FirstCustomerNo} \cup {IdNo(rows[k].customer_id) : k \in 1..Len(rows)})
    IN  [customer_id |-> CustIds[max_id + 1 - FirstCustomerNo],
         name |-> name,
         credit_limit |-> StarterCreditLimit,
         open_ar |-> 0]

\* ------------------------------------------------------------------------
\* State
\* ------------------------------------------------------------------------
VARIABLES
    inbox,       \* ids of the messages carrying the UNREAD label
    pc,          \* position of the process: the loop, or the stage of the run
    processed,   \* the loop's counter
    current,     \* the message the loop fetched for this iteration (0: none)
    output,      \* structured output of the retriever, before validation
    po,          \* value of the retriever's response (RetrievedPO)
    props,       \* additional_properties of the retriever's response
    decision,    \* value of the decider's response
    thread,      \* replies in the Slack thread of the approval request
    elapsed,     \* time.time() - start_time in get_approval_from_slack
    approved,    \* return value of get_approval_from_slack ("pending" before)
    sendResult,  \* return value of send_confirmation_email_with_approval
    itemIdx,     \* next item of STEP 4
    step4ok,     \* STEP 4 completed successfully
    result,      \* value of the fulfiller's / rejector's response
    calls,       \* tool calls and returns of this run, in order
    storeLog,    \* writes to the record store, over the whole history
    stock,       \* Products table: Qty Available per SKU
    customers,   \* Customers table rows
    restarts,    \* number of process restarts so far
    stages,      \* agents and the gate invoked in this run, in order
    classified,  \* value of the classifier's response
    returned,    \* documents the search tools returned in this run, in order
    evaluation,  \* the call of the groundedness evaluator in this run
    mt_search_evidence,  \* agents.middleware_tools.search_evidence
    mt_search_queries,   \* agents.middleware_tools.search_queries
    tc_search_evidence,  \* agents.tool_capture.search_evidence
    parsed,      \* value of the parser's response (ParsedPO)
    forwarded,   \* messages the grounding gate sent on in this run
    future,      \* messages that have not arrived yet, in order of arrival
    SLACK_APPROVAL_CHANNEL  \* the environment variable ("": not set)

vars == <<inbox, pc, processed, current, output, po, props, decision, thread, elapsed,
          approved, sendResult, itemIdx, step4ok, result, calls, storeLog,
          stock, customers, restarts, stages, classified, returned, evaluation,
          mt_search_evidence, mt_search_queries, tc_search_evidence,
          parsed, forwarded, future, SLACK_APPROVAL_CHANNEL>>

NoOutput == RetrieverOutput(0, "", 0, 0, <<>>, DefaultDerived)
NoPO == RetrievedPO(NoOutput, <<>>)
NoProps == [present |-> FALSE, is_grounded_result |-> FALSE,
            groundedness_score |-> 0, groundedness_reason |-> ""]
NoDecision == [status |-> "", reason |-> "", input_payload |-> NoPO]
NoSendResult == [status |-> "", email_sent |-> ""]
NoResult == [kind |-> "", ok |-> FALSE]
NoClassification == [has_is_po |-> FALSE, is_po |-> FALSE, email |-> 0]
NoParsed == [email_id |-> 0, customer_company_name |-> "", line_items |-> <<>>]
NoEvaluation == [called |-> FALSE, context |-> <<>>]

Call(tool, arg) == [tool |-> tool, arg |-> arg]

\* ------------------------------------------------------------------------
\* Routing predicates of the workflow graph
\* ------------------------------------------------------------------------
should_parse_always(value) == TRUE

\* getattr(value, 'is_po', False)
should_parse(value) == IF value.has_is_po THEN value.is_po ELSE FALSE

should_fulfill_always(d) == TRUE

\* getattr(value, 'status', None) == 'FULFILLABLE'
should_fulfill(d) == d.status = "FULFILLABLE"

should_reject_never(d) == FALSE

\* getattr(value, 'status', None) == 'UNFULFILLABLE'
should_reject(d) == d.status = "UNFULFILLABLE"

should_be_grounded_always(ap) == TRUE

\* additional_properties.get('is_grounded_result', False)
should_be_grounded(ap) == IF ap.present THEN ap.is_grounded_result ELSE FALSE

\* ------------------------------------------------------------------------
\* Initial state: the process starts, every message is unread
\* ------------------------------------------------------------------------
RunStateFresh ==
    /\ po = NoPO
    /\ props = NoProps
    /\ decision = NoDecision
    /\ thread = <<>>
    /\ elapsed = 0
    /\ approved = "pending"
    /\ sendResult = NoSendResult
    /\ itemIdx = 1
    /\ step4ok = FALSE
    /\ result = NoResult
    /\ calls = <<>>
    /\ stages = <<>>
    /\ classified = NoClassification
    /\ returned = <<>>
    /\ evaluation = NoEvaluation
    /\ output = NoOutput
    /\ parsed = NoParsed
    /\ forwarded = <<>>

\* create_workflow(): a fresh workflow instance carries nothing of the last run
FreshRun ==
    /\ po' = NoPO
    /\ props' = NoProps
    /\ decision' = NoDecision
    /\ thread' = <<>>
    /\ elapsed' = 0
    /\ approved' = "pending"
    /\ sendResult' = NoSendResult
    /\ itemIdx' = 1
    /\ step4ok' = FALSE
    /\ result' = NoResult
    /\ calls' = <<>>
    /\ stages' = <<>>
    /\ classified' = NoClassification
    /\ returned' = <<>>
    /\ evaluation' = NoEvaluation
    /\ output' = NoOutput
    /\ parsed' = NoParsed
    /\ forwarded' = <<>>

\* The module-level lists of a process that has just imported its modules
BuffersEmpty ==
    /\ mt_search_evidence = <<>>
    /\ mt_search_queries = <<>>
    /\ tc_search_evidence = <<>>

Init ==
    /\ inbox = Msgs
    /\ pc = "fetch"
    /\ processed = 0
    /\ current = 0
    /\ RunStateFresh
    /\ storeLog = <<>>
    /\ stock = InitialStock
    /\ customers = InitialCustomers
    /\ restarts = 0
    /\ BuffersEmpty
    /\ future = <<>>
    /\ SLACK_APPROVAL_CHANNEL = "C0APPROVALS"

runVars == <<po, props, decision, thread, elapsed, approved, sendResult,
             itemIdx, step4ok, result, calls>>
storeVars == <<storeLog, stock, customers>>
loopVars == <<inbox, processed, current, restarts, future, SLACK_APPROVAL_CHANNEL>>
traceVars == <<stages, classified, returned, evaluation, output, parsed, forwarded>>
bufVars == <<mt_search_evidence, mt_search_queries, tc_search_evidence>>

\* ------------------------------------------------------------------------
\* run_till_mail_read
\* ------------------------------------------------------------------------
\* fetch_unread_emails(): maxResults=1 lists the most recent unread message;
\* a message sent from the account itself loses its UNREAD label and is
\* left out of the result
fetch_unread_emails(box) ==
    IF box = {} THEN [emails |-> <<>>, inbox |-> box]
    ELSE IF FromAccount(Max(box)) THEN [emails |-> <<>>, inbox |-> box \ {Max(box)}]
    ELSE [emails |-> << Max(box) >>, inbox |-> box]

\* unread_messages = fetch_unread_emails(), the break on an empty result,
\* and the start of the run on a fresh instance
FetchUnread ==
    /\ pc = "fetch"
    /\ LET unread_messages == fetch_unread_emails(inbox)
       IN  /\ inbox' = unread_messages.inbox
           /\ IF unread_messages.emails = <<>>
              THEN /\ pc' = "exited"
                   /\ UNCHANGED <<current, runVars, traceVars>>
              ELSE /\ current' = unread_messages.emails[1]
                   /\ pc' = "classify"
                   /\ FreshRun
    /\ UNCHANGED <<processed, restarts, future, SLACK_APPROVAL_CHANNEL, storeVars, bufVars>>

\* agents.tool_capture.clear_evidence, the function workflow.py imports:
\* it clears the lists of agents.tool_capture
clear_evidence ==
    /\ tc_search_evidence' = <<>>
    /\ UNCHANGED <<mt_search_evidence, mt_search_queries>>

MarkReadSkipped ==
    /\ pc = "mark"
    /\ clear_evidence
    /\ processed' = processed + 1
    /\ pc' = "fetch"
    /\ UNCHANGED <<inbox, current, restarts, future, SLACK_APPROVAL_CHANNEL, runVars, traceVars,
                   storeVars>>

\* mark_email_as_read(current["id"]); clear_evidence(); processed += 1
MarkRead ==
    /\ pc = "mark"
    /\ inbox' = inbox \ {current}
    /\ clear_evidence
    /\ processed' = processed + 1
    /\ pc' = "fetch"
    /\ UNCHANGED <<current, restarts, future, SLACK_APPROVAL_CHANNEL, runVars, traceVars,
                   storeVars>>

\* An exception leaving a stage ends workflow_instance.run with an error;
\* @logger.catch on run_till_mail_read logs it and the loop is over
RaisingStages == {"classify", "parse", "retrieve", "ground", "destroy", "mark"}

StageRaises ==
    /\ pc \in RaisingStages
    /\ pc' = "aborted"
    /\ UNCHANGED <<bufVars, traceVars, loopVars, runVars, storeVars>>

\* The operator starts the process again: it re-polls the inbox
ProcessRestart ==
    /\ pc \in {"exited", "aborted"}
    /\ restarts < MaxRestarts
    /\ restarts' = restarts + 1
    /\ processed' = 0
    /\ current' = 0
    /\ pc' = "fetch"
    /\ FreshRun
    /\ mt_search_evidence' = <<>>
    /\ mt_search_queries' = <<>>
    /\ tc_search_evidence' = <<>>
    /\ UNCHANGED <<inbox, future, SLACK_APPROVAL_CHANNEL, storeVars>>

\* A message arrives in the inbox. Only the loop's fetch and the classifier's
\* get_unread_emails read the inbox, so an arrival later in a run is the
\* same as one just before the next fetch
Arrive ==
    /\ future # <<>>
    /\ pc \in {"fetch", "classify"}
    /\ inbox' = inbox \cup {Head(future)}
    /\ future' = Tail(future)
    /\ UNCHANGED <<pc, processed, current, restarts, SLACK_APPROVAL_CHANNEL, runVars, traceVars,
                   storeVars, bufVars>>

\* ------------------------------------------------------------------------
\* Stages up to the decision
\* ------------------------------------------------------------------------
\* What the classifier may return for the email it selected (0: the list
\* of unread emails was empty)
ClassifierOutputs(email) ==
    IF email = 0
    THEN { [has_is_po |-> TRUE, is_po |-> FALSE, email |-> 0], NoClassification }
    ELSE { [has_is_po |-> TRUE, is_po |-> TRUE, email |-> email],
           [has_is_po |-> TRUE, is_po |-> FALSE, email |-> email],
           NoClassification }

\* classifier: get_unread_emails() once, the first email returned is the one
\* classified; then the edge classifier -> parser under should_parse
Classify ==
    /\ pc = "classify"
    /\ LET unread == fetch_unread_emails(inbox)
           email == IF unread.emails = <<>> THEN 0 ELSE unread.emails[1]
       IN  /\ inbox' = unread.inbox
           /\ \E value \in ClassifierOutputs(email) : classified' = value
    /\ stages' = Append(stages, "classifier")
    /\ pc' = IF should_parse(classified') THEN "parse" ELSE "mark"
    /\ UNCHANGED <<bufVars, returned, evaluation, output, parsed, forwarded, processed, current,
                   restarts, future, SLACK_APPROVAL_CHANNEL, runVars, storeVars>>

\* The ParsedPO of a purchase-order email
ParsedFor(m) ==
    [email_id |-> m,
     customer_company_name |-> RequestOf(m).customer_name,
     line_items |-> RequestOf(m).lines]

\* The ParsedPO the instructions ask for after a failed safety check: every
\* string field 'SECURITY_VIOLATION' (email_id 0 stands for it: no message
\* has that id), the kind of violation in customer_company_name
SecurityViolation(kind) ==
    [email_id |-> 0, customer_company_name |-> kind, line_items |-> <<>>]

\* parser: the two safety checks in order, then the parse; then the
\* unconditional edge parser -> retriever
Parse ==
    /\ pc = "parse"
    /\ parsed' = IF check_email_prompt_injection(classified.email).is_attack
                 THEN SecurityViolation("PROMPT_INJECTION_DETECTED")
                 ELSE IF ~check_email_content_safety(classified.email).is_safe
                 THEN SecurityViolation("CONTENT_SAFETY_VIOLATION")
                 ELSE ParsedFor(classified.email)
    /\ stages' = Append(stages, "parser")
    /\ pc' = "retrieve"
    /\ UNCHANGED <<bufVars, classified, returned, evaluation, output, forwarded, loopVars,
                   runVars, storeVars>>

\* search_customers / search_products: hybrid search over the indexes
\* ingested from the record store. The nearest document is a hit whether or
\* not it matches the query (of the top hits the best one is kept here); an
\* empty index gives an empty list
search_customers(query) ==
    IF customers = <<>> THEN <<>>
    ELSE LET row == IF RowByName(customers, query) = 0 THEN 1
                    ELSE RowByName(customers, query)
         IN  << [index |-> "customers", key |-> customers[row].customer_id] >>

search_products(query) ==
    IF query \in SKUs THEN << [index |-> "products", key |-> query] >>
    ELSE << [index |-> "products", key |-> CHOOSE sku \in SKUs : TRUE] >>

\* The search calls of the retriever for a ParsedPO: the customer, then each line
SearchCalls(p) ==
    << [tool_name |-> "search_customers", query |-> p.customer_company_name,
        payload |-> search_customers(p.customer_company_name)] >>
    \o [i \in 1..Len(p.line_items) |->
          [tool_name |-> "search_products", query |-> p.line_items[i].sku,
           payload |-> search_products(p.line_items[i].sku)]]

_SEARCH_TOOLS == {"search_customers", "_search_customers",
                  "search_products", "_search_products"}

\* middleware_tools._record_search_payload on that module's two lists
_record_search_payload(bufs, tool_name, query, payload) ==
    IF tool_name \notin _SEARCH_TOOLS \/ payload = <<>> THEN bufs
    ELSE [search_queries |-> IF query # "" THEN Append(bufs.search_queries, query)
                             ELSE bufs.search_queries,
          search_evidence |-> bufs.search_evidence \o payload]

\* ToolCaptureMiddleware.process after each tool call of the agent
RECURSIVE CaptureAll(_, _)
CaptureAll(bufs, searches) ==
    IF searches = <<>> THEN bufs
    ELSE CaptureAll(_record_search_payload(bufs, Head(searches).tool_name,
                                           Head(searches).query, Head(searches).payload),
                    Tail(searches))

RECURSIVE Payloads(_)
Payloads(searches) ==
    IF searches = <<>> THEN <<>> ELSE Head(searches).payload \o Payloads(Tail(searches))

\* retriever: the indexes are re-ingested from the record store, then the
\* customer and every line are resolved by search; the output names the
\* placeholder customer when the search finds none
RetrieverOutputFor(p, sup) ==
    LET row == RowByName(customers, p.customer_company_name)
        raw == [i \in 1..Len(p.line_items) |->
                   RawItem(p.line_items[i].sku, stock[p.line_items[i].sku],
                           p.line_items[i].qty,
                           Catalog[p.line_items[i].sku].unit_price,
                           Catalog[p.line_items[i].sku].vat_rate)]
    IN  IF row = 0
        THEN RetrieverOutput(p.email_id, "NEW", 0, 0, raw, sup)
        ELSE RetrieverOutput(p.email_id, customers[row].customer_id,
                             customers[row].credit_limit, customers[row].open_ar, raw, sup)

\* The response carries the RetrievedPO built from the output, or no value
\* when the output did not parse into one (NoPO stands for the missing value)
Retrieve ==
    /\ pc = "retrieve"
    /\ LET bufs == CaptureAll([search_evidence |-> mt_search_evidence,
                               search_queries |-> mt_search_queries],
                              SearchCalls(parsed))
       IN  /\ mt_search_evidence' = bufs.search_evidence
           /\ mt_search_queries' = bufs.search_queries
    /\ returned' = Payloads(SearchCalls(parsed))
    /\ \E has_value \in BOOLEAN :
          IF has_value
          THEN \E sup \in SuppliedDerived :
                  /\ output' = RetrieverOutputFor(parsed, sup)
                  /\ po' = RetrievedPO(output', tc_search_evidence)
          ELSE /\ output' = NoOutput
               /\ po' = NoPO
    /\ stages' = Append(stages, "retriever")
    /\ pc' = "ground"
    /\ UNCHANGED <<tc_search_evidence, classified, evaluation, parsed, forwarded, loopVars,
                   props, decision,
                   thread, elapsed, approved, sendResult, itemIdx, step4ok, result, calls,
                   storeVars>>

\* check_agent_groundedness: the evaluator's label decides the metadata; the
\* response is forwarded; edge to the decider under should_be_grounded.
\* (The executor imports search_queries from agents.tool_capture, which does
\* not define that name - agents.middleware_tools does. The outcomes here are
\* those of the gate with the import resolved; an exception leaving the gate
\* is StageRaises at "ground".)
send_nothing(response) == <<>>

\* await ctx.send_message(retriever_response)
send_message(response) == << response >>

_attach_success_metadata ==
    [present |-> TRUE, is_grounded_result |-> TRUE,
     groundedness_score |-> 5, groundedness_reason |-> "Passed"]

_attach_failure_metadata(reason) ==
    [present |-> TRUE, is_grounded_result |-> FALSE,
     groundedness_score |-> 0, groundedness_reason |-> reason]

Ground ==
    /\ pc = "ground"
    /\ IF po = NoPO
       THEN /\ props' = _attach_failure_metadata("No response value")
            /\ evaluation' = NoEvaluation
       ELSE /\ \E label \in {"pass", "fail"} :
                  props' = IF label = "pass" THEN _attach_success_metadata
                           ELSE _attach_failure_metadata("Failed check")
            /\ evaluation' = [called |-> TRUE, context |-> po.retrieval_evidence]
    /\ forwarded' = send_message(po)
    /\ stages' = Append(stages, "check_agent_groundedness")
    /\ pc' = IF should_be_grounded(props') THEN "decide" ELSE "mark"
    /\ UNCHANGED <<bufVars, classified, returned, output, parsed, loopVars, po, decision, thread, elapsed, approved, sendResult,
                   itemIdx, step4ok, result, calls, storeVars>>

\* decider, then the edges decider -> fulfiller (should_fulfill) and
\* decider -> rejector (should_reject)
Decide ==
    /\ pc = "decide"
    /\ decision' = Decision(po)
    /\ pc' = IF should_fulfill(decision') THEN "f_step1"
             ELSE IF should_reject(decision') THEN "reject"
             ELSE "mark"
    /\ stages' = Append(stages, "decider")
    /\ UNCHANGED <<bufVars, classified, returned, evaluation, output, parsed, forwarded, loopVars, po, props, thread, elapsed, approved, sendResult,
                   itemIdx, step4ok, result, calls, storeVars>>

\* ------------------------------------------------------------------------
\* Fulfiller: STEP 1 .. STEP 5 of its instructions, over its tools
\* ------------------------------------------------------------------------
\* STEP 1 - customer setup: add_new_customer when customer_id is the placeholder
F_Step1 ==
    /\ pc = "f_step1"
    /\ IF IsPlaceholderCustomer(po)
       THEN /\ Len(customers) < Len(CustIds)
            /\ customers' = Append(customers,
                                NewCustomerRow(customers, parsed.customer_company_name))
            /\ calls' = Append(calls, Call("add_new_customer", ""))
       ELSE UNCHANGED <<customers, calls>>
    /\ pc' = "f_step2"
    /\ stages' = Append(stages, "fulfiller")
    /\ UNCHANGED <<bufVars, classified, returned, evaluation, output, parsed, forwarded, loopVars, po, props, decision, thread, elapsed, approved, sendResult,
                   itemIdx, step4ok, result, storeLog, stock>>

\* STEP 2 - generate_invoice_pdf_url
F_Step2 ==
    /\ pc = "f_step2"
    /\ calls' = Append(calls, Call("generate_invoice_pdf_url", ""))
    /\ pc' = "f_post"
    /\ UNCHANGED <<bufVars, traceVars, loopVars, po, props, decision, thread, elapsed, approved, sendResult,
                   itemIdx, step4ok, result, storeVars>>

\* STEP 3 of the instructions: what follows the return of
\* send_confirmation_email_with_approval
AfterStep3Unconditional(r) == "f_step4"

AfterStep3(r) == IF r.status = "approved" THEN "f_step4" ELSE "f_step5"

\* send_confirmation_email_with_approval, except clause of Step 1
PostFailureAsDenied == [status |-> "denied", email_sent |-> "false"]

PostFailureResult == [status |-> "error", email_sent |-> "false"]

\* send_confirmation_email_with_approval, Step 1: post_approval_request either
\* returns the thread timestamp (get_approval_from_slack is entered next) or
\* raises (the function returns the error dictionary)
F_Post ==
    /\ pc = "f_post"
    /\ \E posted \in BOOLEAN :
          IF posted
          THEN /\ calls' = calls \o << Call("post_approval_request", "ts"),
                                       Call("get_approval_from_slack", "") >>
               /\ thread' = <<>>
               /\ elapsed' = 0
               /\ pc' = "polling"
               /\ UNCHANGED sendResult
          ELSE /\ calls' = calls \o << Call("post_approval_request", "raised"),
                                       Call("send_confirmation_email_with_approval.return",
                                            PostFailureResult.status) >>
               /\ sendResult' = PostFailureResult
               /\ pc' = AfterStep3(PostFailureResult)
               /\ UNCHANGED <<thread, elapsed>>
    /\ UNCHANGED <<bufVars, traceVars, loopVars, po, props, decision, approved, itemIdx, step4ok, result,
                   storeVars>>

\* An approver replies in the thread while the gate is waiting
HumanReply ==
    /\ pc = "polling"
    /\ Len(thread) < MaxReplies
    /\ \E text \in ReplyTexts : thread' = Append(thread, text)
    /\ UNCHANGED <<bufVars, traceVars, loopVars, pc, po, props, decision, elapsed, approved, sendResult,
                   itemIdx, step4ok, result, calls, storeVars>>

\* post_approval_request posts to one channel, send_confirmation_email_with_approval
\* hands another to get_approval_from_slack: the two read the environment
\* variable with different defaults
PostChannel == getenv(SLACK_APPROVAL_CHANNEL, "C09NHPL1QAU")

PollChannel == getenv(SLACK_APPROVAL_CHANNEL, "orders")

\* conversations_replies(channel, ts): the thread exists in the channel the
\* request was posted to; elsewhere, and on any other failure, SlackApiError
ConversationsReplies ==
    IF PollChannel = PostChannel THEN {"ok", "SlackApiError"} ELSE {"SlackApiError"}

\* get_approval_from_slack: one iteration of the while loop. conversations_replies
\* either raises SlackApiError (sleep, next iteration) or returns the request
\* message followed by the replies
PollIteration ==
    /\ pc = "polling"
    /\ elapsed < Timeout
    /\ \E api \in ConversationsReplies :
          LET verdict == IF api = "ok" THEN ScanThread(<<RequestText>> \o thread)
                         ELSE "none"
          IN  IF verdict = "none"
              THEN /\ elapsed' = elapsed + PollInterval
                   /\ UNCHANGED <<pc, approved>>
              ELSE /\ approved' = IF verdict = "approve" THEN "true" ELSE "false"
                   /\ pc' = "respond"
                   /\ UNCHANGED elapsed
    /\ UNCHANGED <<bufVars, traceVars, loopVars, po, props, decision, thread, sendResult, itemIdx, step4ok,
                   result, calls, storeVars>>

\* get_approval_from_slack: the loop condition fails, "defaulting to DENY"
TimeoutReturnApprove == "true"

TimeoutReturn == "false"

PollTimeout ==
    /\ pc = "polling"
    /\ elapsed >= Timeout
    /\ approved' = TimeoutReturn
    /\ pc' = "respond"
    /\ UNCHANGED <<bufVars, traceVars, loopVars, po, props, decision, thread, elapsed, sendResult, itemIdx,
                   step4ok, result, calls, storeVars>>

\* _load_reply_context(message_id) and _send_reply: the reply goes out when
\* the id is that of a message, and the Gmail API may fail
ReplyOutcomes(message_id) ==
    IF message_id = 0 THEN {"raised"} ELSE {"sent", "raised"}

\* send_confirmation_email_with_approval, Step 3: "if approved:"
SendsConfirmationAlways(a) == TRUE

SendsConfirmation(a) == a = "true"

SendConfirmation ==
    /\ pc = "respond"
    /\ \E mail \in ReplyOutcomes(po.email_id) :
          LET r == IF SendsConfirmation(approved)
                   THEN [status |-> "approved",
                         email_sent |-> IF mail = "sent" THEN "true" ELSE "false"]
                   ELSE [status |-> "denied", email_sent |-> "false"]
          IN  /\ sendResult' = r
              /\ calls' = calls
                   \o (IF SendsConfirmation(approved)
                       THEN << Call("get_approval_from_slack.return", approved),
                               Call("respond_confirmation_email", mail) >>
                       ELSE << Call("get_approval_from_slack.return", approved) >>)
                   \o << Call("send_confirmation_email_with_approval.return", r.status) >>
              /\ pc' = AfterStep3(r)
    /\ UNCHANGED <<bufVars, traceVars, loopVars, po, props, decision, thread, elapsed, approved, itemIdx,
                   step4ok, result, storeVars>>

\* STEP 4 - update_inventory(ordered_qty, product_sku) for each item
F_UpdateInventory ==
    /\ pc = "f_step4"
    /\ itemIdx <= Len(po.items)
    /\ LET item == po.items[itemIdx]
       IN  /\ stock' = [stock EXCEPT ![item.product_sku] = @ - item.ordered_qty]
           /\ storeLog' = Append(storeLog,
                             [kind |-> "inventory", message |-> po.email_id, key |-> itemIdx])
           /\ calls' = Append(calls, Call("update_inventory", item.product_sku))
    /\ itemIdx' = itemIdx + 1
    /\ UNCHANGED <<bufVars, traceVars, loopVars, pc, po, props, decision, thread, elapsed, approved, sendResult,
                   step4ok, result, customers>>

\* STEP 4 - update_customer_credit(customer_id=input_payload.customer_id,
\* order_amount=input_payload.order_total); ValueError when no row has that id
F_UpdateCredit ==
    /\ pc = "f_step4"
    /\ itemIdx > Len(po.items)
    /\ LET row == RowById(customers, po.customer_id)
       IN  IF row = 0
           THEN /\ calls' = Append(calls, Call("update_customer_credit", "raised"))
                /\ step4ok' = FALSE
                /\ UNCHANGED <<customers, storeLog>>
           ELSE /\ customers' = [customers EXCEPT ![row].open_ar = @ + po.order_total]
                /\ storeLog' = Append(storeLog,
                                  [kind |-> "credit", message |-> po.email_id, key |-> 0])
                /\ calls' = Append(calls, Call("update_customer_credit", "updated"))
                /\ step4ok' = TRUE
    /\ pc' = "f_step5"
    /\ UNCHANGED <<bufVars, traceVars, loopVars, po, props, decision, thread, elapsed, approved, sendResult,
                   itemIdx, result, stock>>

\* STEP 5 - FulfillmentResult: ok only if STEP 3 was approved and STEP 4 completed
F_Step5 ==
    /\ pc = "f_step5"
    /\ result' = [kind |-> "FulfillmentResult",
                  ok |-> sendResult.status = "approved" /\ step4ok]
    /\ pc' = "log_fulfillment"
    /\ UNCHANGED <<bufVars, traceVars, loopVars, po, props, decision, thread, elapsed, approved, sendResult,
                   itemIdx, step4ok, calls, storeVars>>

\* ------------------------------------------------------------------------
\* Rejector and the terminal chain
\* ------------------------------------------------------------------------
\* rejector: respond_unfulfillable_email(message_id, reason, retrieved_po)
Reject ==
    /\ pc = "reject"
    /\ calls' = Append(calls, Call("respond_unfulfillable_email", decision.reason))
    /\ result' = [kind |-> "RejectResult", ok |-> TRUE]
    /\ pc' = "log_rejection"
    /\ stages' = Append(stages, "rejector")
    /\ UNCHANGED <<bufVars, classified, returned, evaluation, output, parsed, forwarded, loopVars, po, props, decision, thread, elapsed, approved, sendResult,
                   itemIdx, step4ok, storeVars>>

\* log_fulfillment forwards the response to destroy_indexes
LogFulfillment ==
    /\ pc = "log_fulfillment"
    /\ pc' = "destroy"
    /\ UNCHANGED <<bufVars, traceVars, loopVars, runVars, storeVars>>

\* log_rejection forwards the response to destroy_indexes
LogRejection ==
    /\ pc = "log_rejection"
    /\ pc' = "destroy"
    /\ UNCHANGED <<bufVars, traceVars, loopVars, runVars, storeVars>>

\* destroy_indexes ends the run; workflow_instance.run returns
DestroyIndexes ==
    /\ pc = "destroy"
    /\ pc' = "mark"
    /\ UNCHANGED <<bufVars, traceVars, loopVars, runVars, storeVars>>

\* ------------------------------------------------------------------------
\* Specifications
\* ------------------------------------------------------------------------
Next ==
    \/ FetchUnread
    \/ MarkRead
    \/ StageRaises
    \/ ProcessRestart
    \/ Classify
    \/ Parse
    \/ Retrieve
    \/ Ground
    \/ Decide
    \/ F_Step1
    \/ F_Step2
    \/ F_Post
    \/ HumanReply
    \/ PollIteration
    \/ PollTimeout
    \/ SendConfirmation
    \/ F_UpdateInventory
    \/ F_UpdateCredit
    \/ F_Step5
    \/ Reject
    \/ LogFulfillment
    \/ LogRejection
    \/ DestroyIndexes

Spec == Init /\ [][Next]_vars

\* The approval gate on its own: the fulfiller is about to call
\* send_confirmation_email_with_approval for the order of message 1
GateInit ==
    /\ inbox = Msgs
    /\ pc = "f_post"
    /\ processed = 0
    /\ current = 1
    /\ output = RetrieverOutput(1, "C-5001", InitialCustomers[1].credit_limit,
                                InitialCustomers[1].open_ar,
                                << RawItem("A", InitialStock["A"], 1, Catalog["A"].unit_price,
                                           Catalog["A"].vat_rate) >>, DefaultDerived)
    /\ po = RetrievedPO(output, <<>>)
    /\ props = _attach_success_metadata
    /\ decision = Decision(po)
    /\ thread = <<>>
    /\ elapsed = 0
    /\ approved = "pending"
    /\ sendResult = NoSendResult
    /\ itemIdx = 1
    /\ step4ok = FALSE
    /\ result = NoResult
    /\ calls = << Call("generate_invoice_pdf_url", "") >>
    /\ storeLog = <<>>
    /\ stock = InitialStock
    /\ customers = InitialCustomers
    /\ restarts = 0
    /\ stages = << "classifier", "parser", "retriever", "check_agent_groundedness",
                   "decider", "fulfiller" >>
    /\ classified = [has_is_po |-> TRUE, is_po |-> TRUE, email |-> 1]
    /\ parsed = ParsedFor(1)
    /\ returned = Payloads(SearchCalls(parsed))
    /\ evaluation = [called |-> TRUE, context |-> <<>>]
    /\ mt_search_evidence = returned
    /\ mt_search_queries = [i \in 1..Len(SearchCalls(parsed)) |-> SearchCalls(parsed)[i].query]
    /\ tc_search_evidence = <<>>
    /\ forwarded = send_message(po)
    /\ future = <<>>
    /\ SLACK_APPROVAL_CHANNEL \in {"", "C0APPROVALS"}

GateNext ==
    \/ F_Post
    \/ HumanReply
    \/ PollIteration
    \/ PollTimeout
    \/ SendConfirmation

GateSpec == GateInit /\ [][GateNext]_vars

\* The polling loop keeps running while the process is alive
FairGateSpec == GateSpec /\ WF_vars(PollIteration) /\ WF_vars(PollTimeout)

\* Business rules and decision on their own: the decider is handed a
\* RetrievedPO built from arbitrary retriever output
RulePrices == { <<0, 19>>, <<1000, 0>>, <<1000, 19>> }

RuleItems ==
    { RawItem("A", avail, qty, pv[1], pv[2]) :
        avail \in 0..MaxQty, qty \in 1..MaxQty, pv \in RulePrices }

RuleItemSeqs == UNION { [1..n -> RuleItems] : n \in 0..MaxItems }

RuleCreditLimits == {0, 3690, 6000}

RuleOpenARs == {0, 3000}

RulesInit ==
    /\ inbox = {1}
    /\ pc = "construct"
    /\ processed = 0
    /\ current = 1
    /\ \E items \in RuleItemSeqs, cid \in {"C-5001", "NEW"},
          limit \in RuleCreditLimits, ar \in RuleOpenARs, sup \in SuppliedDerived :
            output = RetrieverOutput(1, cid, limit, ar, items, sup)
    /\ po = NoPO
    /\ props = NoProps
    /\ decision = NoDecision
    /\ thread = <<>>
    /\ elapsed = 0
    /\ approved = "pending"
    /\ sendResult = NoSendResult
    /\ itemIdx = 1
    /\ step4ok = FALSE
    /\ result = NoResult
    /\ calls = <<>>
    /\ storeLog = <<>>
    /\ stock = InitialStock
    /\ customers = InitialCustomers
    /\ restarts = 0
    /\ stages = << "classifier", "parser", "retriever" >>
    /\ classified = [has_is_po |-> TRUE, is_po |-> TRUE, email |-> 1]
    /\ returned = <<>>
    /\ evaluation = NoEvaluation
    /\ BuffersEmpty
    /\ parsed = ParsedFor(1)
    /\ forwarded = <<>>
    /\ future = <<>>
    /\ SLACK_APPROVAL_CHANNEL = "C0APPROVALS"

\* The output is validated into the RetrievedPO of the response, and the
\* gate passes the response on to the decider
ConstructPO ==
    /\ pc = "construct"
    /\ po' = RetrievedPO(output, tc_search_evidence)
    /\ props' = _attach_success_metadata
    /\ evaluation' = [called |-> TRUE, context |-> po'.retrieval_evidence]
    /\ forwarded' = send_message(po')
    /\ stages' = Append(stages, "check_agent_groundedness")
    /\ pc' = "decide"
    /\ UNCHANGED <<bufVars, classified, returned, output, parsed, loopVars, decision, thread,
                   elapsed, approved, sendResult, itemIdx, step4ok, result, calls,
                   storeVars>>

RulesNext ==
    \/ ConstructPO
    \/ Decide

RulesSpec == RulesInit /\ [][RulesNext]_vars

\* A RetrievedPO in the hands of code that assigns to its input fields:
\* RetrievedItem and RetrievedPO are plain pydantic models (model_config is
\* ConfigDict(extra="forbid"), nothing validates on assignment), so an
\* assignment stores the value and runs no validator
AssignInit ==
    /\ inbox = {1}
    /\ pc = "held"
    /\ processed = 0
    /\ current = 1
    /\ \E n \in 0..MaxItems :
          output = RetrieverOutput(1, "C-5001", 6000, 0,
                                   [i \in 1..n |-> RawItem("A", MaxQty, 1, 1000, 19)],
                                   DefaultDerived)
    /\ po = RetrievedPO(output, <<>>)
    /\ props = NoProps
    /\ decision = NoDecision
    /\ thread = <<>>
    /\ elapsed = 0
    /\ approved = "pending"
    /\ sendResult = NoSendResult
    /\ itemIdx = 1
    /\ step4ok = FALSE
    /\ result = NoResult
    /\ calls = <<>>
    /\ storeLog = <<>>
    /\ stock = InitialStock
    /\ customers = InitialCustomers
    /\ restarts = 0
    /\ stages = << "classifier", "parser", "retriever" >>
    /\ classified = [has_is_po |-> TRUE, is_po |-> TRUE, email |-> 1]
    /\ returned = <<>>
    /\ evaluation = NoEvaluation
    /\ BuffersEmpty
    /\ parsed = ParsedFor(1)
    /\ forwarded = <<>>
    /\ future = <<>>
    /\ SLACK_APPROVAL_CHANNEL = "C0APPROVALS"

heldVars == <<parsed, forwarded, future, SLACK_APPROVAL_CHANNEL,
              inbox, pc, processed, current, output, props, decision, thread, elapsed,
              approved, sendResult, itemIdx, step4ok, result, calls, storeLog, stock,
              customers, restarts, stages, classified, returned, evaluation,
              mt_search_evidence, mt_search_queries, tc_search_evidence>>

\* item.ordered_qty = ..., item.unit_price = ..., item.vat_rate = ...,
\* item.product_qty_available = ...
AssignItemInput ==
    /\ pc = "held"
    /\ \E i \in 1..Len(po.items) :
          \/ \E v \in 1..MaxQty : po' = [po EXCEPT !.items[i].ordered_qty = v]
          \/ \E v \in {0, 1000} : po' = [po EXCEPT !.items[i].unit_price = v]
          \/ \E v \in {0, 19} : po' = [po EXCEPT !.items[i].vat_rate = v]
          \/ \E v \in 0..MaxQty : po' = [po EXCEPT !.items[i].product_qty_available = v]
    /\ UNCHANGED heldVars

\* po.customer_overall_credit_limit = ..., po.customer_open_ar = ...
AssignOrderInput ==
    /\ pc = "held"
    /\ \/ \E v \in RuleCreditLimits : po' = [po EXCEPT !.customer_overall_credit_limit = v]
       \/ \E v \in RuleOpenARs : po' = [po EXCEPT !.customer_open_ar = v]
    /\ UNCHANGED heldVars

AssignNext ==
    \/ AssignItemInput
    \/ AssignOrderInput

AssignSpec == AssignInit /\ [][AssignNext]_vars

\* The polling loop over mail of every kind, unread at the start or arriving
\* while the loop runs; no stage raises
AllMsgs == Msgs \cup {SelfMsg, InjectionMsg, UnsafeMsg}

\* The mail of one scenario: at most MaxMail messages
MailSets == { box \in SUBSET AllMsgs : box # {} /\ Cardinality(box) <= MaxMail }

Min(S) == CHOOSE x \in S : \A y \in S : x <= y

RECURSIVE Ascending(_)
Ascending(S) == IF S = {} THEN <<>> ELSE << Min(S) >> \o Ascending(S \ {Min(S)})

\* The mail is unread in the inbox when the process starts
LoopInit ==
    /\ inbox \in MailSets
    /\ pc = "fetch"
    /\ processed = 0
    /\ current = 0
    /\ RunStateFresh
    /\ storeLog = <<>>
    /\ stock = InitialStock
    /\ customers = InitialCustomers
    /\ restarts = 0
    /\ BuffersEmpty
    /\ future = <<>>
    /\ SLACK_APPROVAL_CHANNEL = "C0APPROVALS"

RunSteps ==
    \/ FetchUnread
    \/ MarkRead
    \/ Classify
    \/ Parse
    \/ Retrieve
    \/ Ground
    \/ Decide
    \/ F_Step1
    \/ F_Step2
    \/ F_Post
    \/ PollIteration
    \/ PollTimeout
    \/ SendConfirmation
    \/ F_UpdateInventory
    \/ F_UpdateCredit
    \/ F_Step5
    \/ Reject
    \/ LogFulfillment
    \/ LogRejection
    \/ DestroyIndexes

LoopNext ==
    \/ RunSteps
    \/ HumanReply

\* The event loop runs the coroutine to its end: every step of the loop and
\* of the run in progress is eventually taken; the approver owes nothing
FairLoopSpec == LoopInit /\ [][LoopNext]_vars /\ WF_vars(RunSteps)

\* The mail arrives while the process runs, oldest message first
InboxInit ==
    /\ inbox = {}
    /\ future \in { Ascending(box) : box \in MailSets }
    /\ pc = "fetch"
    /\ processed = 0
    /\ current = 0
    /\ RunStateFresh
    /\ storeLog = <<>>
    /\ stock = InitialStock
    /\ customers = InitialCustomers
    /\ restarts = 0
    /\ BuffersEmpty
    /\ SLACK_APPROVAL_CHANNEL = "C0APPROVALS"

InboxNext ==
    \/ LoopNext
    \/ Arrive

InboxSpec == InboxInit /\ [][InboxNext]_vars

\* ------------------------------------------------------------------------
\* Properties
\* ------------------------------------------------------------------------
IsMutation(c) == c.tool \in {"update_inventory", "update_customer_credit"}

Called(tool) == \E i \in 1..Len(calls) : calls[i].tool = tool

ApprovedReturn == Call("send_confirmation_email_with_approval.return", "approved")

\* C1: every update_inventory / update_customer_credit call of a run comes
\* after a return of send_confirmation_email_with_approval with status
\* 'approved' in the same run.
C1_MutationsAfterApproval ==
    \A i \in 1..Len(calls) :
        IsMutation(calls[i]) => \E j \in 1..(i - 1) : calls[j] = ApprovedReturn

C1_Witness ==
    /\ Called("update_inventory")
    /\ \E i \in 1..Len(calls) : calls[i] = Call("update_customer_credit", "updated")

\* The replies of the model, classified by hand
ApproveOnlyReplies == { <<"A","P","P","R","O","V","E">> }
DenyOnlyReplies == { <<" ","D","e","n","y">> }
BothKeywordReplies == { <<"n","o"," ","a","p","p","r","o","v","e">> }
NoKeywordReplies == { <<"o","k"," ","t","h","a","n","k","s">>,
                      <<"d","i","s","a","p","p","r","o","v","e","d">> }

NoKeywordReplyInThread == \A i \in 1..Len(thread) : thread[i] \in NoKeywordReplies

\* get_approval_from_slack has returned from inside its loop, on a poll
ReturnedOnPoll == approved # "pending" /\ elapsed < Timeout

FirstKeywordReply ==
    thread[CHOOSE i \in 1..Len(thread) :
              /\ thread[i] \notin NoKeywordReplies
              /\ \A j \in 1..(i - 1) : thread[j] \in NoKeywordReplies]

\* C2: when no reply with an approve or deny keyword arrives, the gate
\* eventually returns, it does so only once the timeout has elapsed, its
\* result is False, and send_confirmation_email_with_approval reports
\* status 'denied' with email_sent 'false'.
C2_SilenceIsDenied ==
    /\ (pc = "polling") ~> (pc = "respond")
    /\ [](approved # "pending" /\ NoKeywordReplyInThread
            => /\ approved = "false"
               /\ elapsed >= Timeout
               /\ sendResult # NoSendResult
                    => sendResult = [status |-> "denied", email_sent |-> "false"])

C2_Witness ==
    /\ approved = "false"
    /\ NoKeywordReplyInThread
    /\ Len(thread) > 0
    /\ sendResult = [status |-> "denied", email_sent |-> "false"]

\* C3 as stated: the decision is UNFULFILLABLE iff some line orders more than
\* is available or the available credit is below the order total.
C3_Original ==
    decision # NoDecision =>
        /\ decision.status \in {"FULFILLABLE", "UNFULFILLABLE"}
        /\ decision.status = "UNFULFILLABLE"
             <=> \/ \E i \in 1..Len(po.items) :
                        po.items[i].ordered_qty > po.items[i].product_qty_available
                 \/ po.customer_available_credit < po.order_total

\* C3 amended: the decision is UNFULFILLABLE iff some line orders more than
\* is available, or the customer is not the 'NEW' placeholder and the
\* available credit is below the order total; otherwise FULFILLABLE.
C3_Amended ==
    decision # NoDecision =>
        /\ decision.status \in {"FULFILLABLE", "UNFULFILLABLE"}
        /\ decision.status = "UNFULFILLABLE"
             <=> \/ \E i \in 1..Len(po.items) :
                        po.items[i].ordered_qty > po.items[i].product_qty_available
                 \/ /\ po.customer_id # "NEW"
                    /\ po.customer_overall_credit_limit - po.customer_open_ar
                         < po.order_total

C3_Witness ==
    /\ decision.status = "FULFILLABLE"
    /\ po.customer_id = "NEW"
    /\ Len(po.items) = MaxItems
    /\ po.customer_available_credit < po.order_total

\* C4: for every message, each inventory decrement and the receivables
\* increase of its order happen at most once over the whole history.
C4_AtMostOnce ==
    \A i, j \in 1..Len(storeLog) : storeLog[i] = storeLog[j] => i = j

RunEnded == pc = "mark"

\* C5: a FULFILLABLE order whose approval is not 'approved' is handed to the
\* rejection stage, which sends a rejection notice carrying the decision's
\* reason, and the run mutates neither inventory nor credit.
C5_DeniedIsRejected ==
    (RunEnded /\ decision.status = "FULFILLABLE" /\ sendResult.status = "denied")
        => /\ \E i \in 1..Len(calls) :
                 calls[i] = Call("respond_unfulfillable_email", decision.reason)
           /\ \A i \in 1..Len(calls) : ~IsMutation(calls[i])

\* C6: update_inventory and update_customer_credit run only after the
\* confirmation email was sent successfully.
C6_MutationsAfterEmailSent ==
    \A i \in 1..Len(calls) :
        IsMutation(calls[i])
            => \E j \in 1..(i - 1) : calls[j] = Call("respond_confirmation_email", "sent")

\* C7: respond_confirmation_email is invoked only after get_approval_from_slack
\* returned True in the same run; after a denied, timed-out or errored
\* approval the run contains no confirmation email.
C7_EmailOnlyAfterApproval ==
    /\ \A i \in 1..Len(calls) :
          calls[i].tool = "respond_confirmation_email"
            => \E j \in 1..(i - 1) : calls[j] = Call("get_approval_from_slack.return", "true")
    /\ sendResult.status \in {"denied", "error"} => ~Called("respond_confirmation_email")

C7_Witness ==
    /\ Called("respond_confirmation_email")
    /\ sendResult.status = "approved"

C9_FirstKeywordReplyWins ==
    (ReturnedOnPoll /\ ~NoKeywordReplyInThread) =>
        approved = IF FirstKeywordReply \in ApproveOnlyReplies \cup BothKeywordReplies
                   THEN "true" ELSE "false"

C9_Witness ==
    /\ ReturnedOnPoll
    /\ approved = "true"
    /\ Len(thread) = 2
    /\ thread[1] \in BothKeywordReplies
    /\ thread[2] \in DenyOnlyReplies

\* C10: when post_approval_request raises, send_confirmation_email_with_approval
\* returns status 'error' with email_sent 'false', the thread is not polled
\* and no email is sent by it.
C10_PostFailureIsError ==
    (\E i \in 1..Len(calls) : calls[i] = Call("post_approval_request", "raised"))
        => /\ sendResult = [status |-> "error", email_sent |-> "false"]
           /\ ~Called("get_approval_from_slack")
           /\ ~Called("respond_confirmation_email")

C10_Witness ==
    /\ \E i \in 1..Len(calls) : calls[i] = Call("post_approval_request", "raised")
    /\ pc = "f_step5"

Invoked(stage) == \E i \in 1..Len(stages) : stages[i] = stage

LastStage == IF stages = <<>> THEN "" ELSE stages[Len(stages)]

ClassifiedNotPO ==
    /\ Invoked("classifier")
    /\ ~(classified.has_is_po /\ classified.is_po)

\* C11: once the classifier has reported is_po = false, or an output without
\* is_po, the run invokes no stage after the classifier, makes no tool call
\* (so sends no email and posts nothing to Slack) and no step of it changes
\* the record store.
C11_NotPOEndsRun ==
    /\ [](ClassifiedNotPO => /\ stages = << "classifier" >>
                              /\ calls = <<>>
                              /\ po = NoPO
                              /\ decision = NoDecision
                              /\ pc \in {"mark", "fetch", "exited", "aborted"})
    /\ [][ClassifiedNotPO => UNCHANGED storeVars]_vars

C11_Witness ==
    /\ pc = "mark"
    /\ processed = 1
    /\ stages = << "classifier" >>
    /\ classified = [has_is_po |-> TRUE, is_po |-> FALSE, email |-> current]

GateDone == Invoked("check_agent_groundedness")

GroundedVerdict == props.present /\ props.is_grounded_result

\* C12: the decider, and with it the fulfiller and the rejector, is invoked
\* only in a run whose gate attached is_grounded_result = True; when the gate
\* attached a failing verdict or no metadata, the gate is the last stage of
\* the run and nothing of the decision or of its consequences exists.
C12_DeciderOnlyWhenGrounded ==
    /\ (Invoked("decider") \/ Invoked("fulfiller") \/ Invoked("rejector"))
          => (GateDone /\ GroundedVerdict)
    /\ (GateDone /\ ~GroundedVerdict)
          => /\ LastStage = "check_agent_groundedness"
             /\ decision = NoDecision
             /\ calls = <<>>
             /\ pc \in {"mark", "fetch", "exited", "aborted"}

C12_Witness ==
    /\ pc = "mark"
    /\ LastStage = "check_agent_groundedness"
    /\ po # NoPO
    /\ props = _attach_failure_metadata("Failed check")

\* C13: when the RetrievedPO handed to the gate has an empty
\* retrieval_evidence, the gate attaches a failing verdict, the evaluator has
\* not been consulted, and the decider is not invoked.
C13_EmptyEvidenceFailsClosed ==
    (GateDone /\ po # NoPO /\ po.retrieval_evidence = <<>>)
        => /\ props.present
           /\ ~props.is_grounded_result
           /\ ~evaluation.called
           /\ ~Invoked("decider")

\* C14: when a workflow run starts in run_till_mail_read, the lists into
\* which the search calls are captured (evidence and queries) are empty.
C14_BuffersEmptyAtRunStart ==
    (pc = "classify") => (mt_search_evidence = <<>> /\ mt_search_queries = <<>>)

Contains(docs, doc) == \E j \in 1..Len(docs) : docs[j] = doc

\* C15: every document a search tool returned during the run is in the
\* retrieval_evidence of the RetrievedPO built in that run, and in the
\* context handed to the evaluator.
C15_SearchResultsAreEvidence ==
    /\ (po # NoPO)
          => \A i \in 1..Len(returned) : Contains(po.retrieval_evidence, returned[i])
    /\ evaluation.called
          => \A i \in 1..Len(returned) : Contains(evaluation.context, returned[i])

\* C16: the RetrievedPO of every construction has order_total = subtotal +
\* tax + shipping, subtotal = the sum of its items' subtotals, and every item
\* has subtotal = ordered_qty * unit_price.
C16_TotalsAddUp ==
    /\ po.order_total = po.subtotal + po.tax + po.shipping
    /\ po.subtotal = SumSeq([i \in 1..Len(po.items) |-> po.items[i].subtotal])
    /\ \A i \in 1..Len(po.items) :
          po.items[i].subtotal = po.items[i].ordered_qty * po.items[i].unit_price

C16_Witness ==
    /\ pc = "decide"
    /\ po = RetrievedPO(output, <<>>)
    /\ Len(po.items) = 2
    /\ po.items[1].ordered_qty = 2
    /\ po.items[1].unit_price > 0
    /\ po.tax > 0
    /\ po.shipping > 0

\* C17: after any sequence of assignments to the input fields of a
\* RetrievedPO or of its items, the derived fields equal the values the
\* validators compute from the current inputs.
C17_DerivedFollowInputs ==
    (pc = "held") => (po = RetrievedPO(po, po.retrieval_evidence))

\* The input fields of an output, the fields the validators assign reset
BaseOf(out) ==
    RetrieverOutput(out.email_id, out.customer_id, out.customer_overall_credit_limit,
                    out.customer_open_ar, out.items, DefaultDerived)

DerivedOf(p) ==
    [product_in_stock |-> [i \in 1..Len(p.items) |-> p.items[i].product_in_stock],
     item_subtotal |-> [i \in 1..Len(p.items) |-> p.items[i].subtotal],
     subtotal |-> p.subtotal,
     tax |-> p.tax,
     shipping |-> p.shipping,
     order_total |-> p.order_total,
     customer_available_credit |-> p.customer_available_credit,
     customer_can_order_with_credit |-> p.customer_can_order_with_credit]

\* C18: the derived fields of a constructed RetrievedPO are those of the
\* construction from the same input fields with every derived field left at
\* its default: what the output carried in the derived fields has no effect,
\* so two constructions from equal inputs agree on every derived field.
C18_DerivedFromBaseOnly ==
    (po # NoPO) => (DerivedOf(po) = DerivedOf(RetrievedPO(BaseOf(output), <<>>)))

C18_Witness ==
    /\ pc = "decide"
    /\ Len(po.items) = 2
    /\ output.tax = 77700
    /\ output.items[1].subtotal = 77700
    /\ output.items[1].product_in_stock
    /\ ~po.items[1].product_in_stock
    /\ po.tax # 77700

ZeroItemTotals == po.subtotal = 0 /\ po.tax = 0 /\ po.shipping = 0

\* C19 (as stated): an order with zero line items has subtotal, tax and
\* shipping 0 and customer_can_order_with_credit true, for every credit
\* limit and open AR.
C19_Original ==
    (po # NoPO /\ Len(po.items) = 0)
        => (ZeroItemTotals /\ po.customer_can_order_with_credit)

\* C19 (amended): an order with zero line items has subtotal, tax and
\* shipping 0, and customer_can_order_with_credit is true exactly when the
\* credit limit is at least the open AR.
C19_Amended ==
    (po # NoPO /\ Len(po.items) = 0)
        => /\ ZeroItemTotals
           /\ po.customer_can_order_with_credit
                 <=> (po.customer_overall_credit_limit >= po.customer_open_ar)

C19_Witness ==
    /\ pc = "decide"
    /\ Len(po.items) = 0
    /\ po.customer_open_ar > po.customer_overall_credit_limit
    /\ ~po.customer_can_order_with_credit

PlaceholderOrderInStock ==
    /\ po.customer_id = "NEW"
    /\ po.customer_overall_credit_limit = 0
    /\ po.customer_open_ar = 0
    /\ \A i \in 1..Len(po.items) :
          po.items[i].product_qty_available >= po.items[i].ordered_qty

\* C20: an order of the placeholder customer (customer_id 'NEW', credit
\* limit 0, open AR 0) with every line in stock is decided FULFILLABLE and
\* routed to the fulfiller, never to the rejector, and the fulfiller's first
\* step creates the customer record.
C20_PlaceholderIsFulfilled ==
    (Invoked("decider") /\ PlaceholderOrderInStock)
        => /\ decision.status = "FULFILLABLE"
           /\ pc = "f_step1" \/ Invoked("fulfiller")
           /\ ~Invoked("rejector")
           /\ Invoked("fulfiller")
                 => /\ calls[1] = Call("add_new_customer", "")
                    /\ RowByName(customers, RequestOf(po.email_id).customer_name) # 0

C20_Witness ==
    /\ Invoked("fulfiller")
    /\ PlaceholderOrderInStock
    /\ po.order_total > 0
    /\ Called("add_new_customer")
    /\ customers[Len(customers)].name = "NewCo"

SecurityViolationParsed ==
    parsed \in { SecurityViolation("PROMPT_INJECTION_DETECTED"),
                 SecurityViolation("CONTENT_SAFETY_VIOLATION") }

\* C21: once the parser has returned the ParsedPO that reports a security
\* violation, the run changes neither inventory nor credit, posts no
\* approval request and sends no email to the sender.
C21_ViolationStopsRun ==
    SecurityViolationParsed
        => \A i \in 1..Len(calls) :
              calls[i].tool \notin { "update_inventory", "update_customer_credit",
                                     "post_approval_request",
                                     "respond_confirmation_email",
                                     "respond_unfulfillable_email" }

\* C22: when a run has ended with an error, the message in flight has not
\* been marked read (it is still unread at the next poll) and the run has
\* committed no side effect of fulfillment.
C22_AbortLeavesNothing ==
    (pc = "aborted")
        => /\ current \in inbox
           /\ \A i \in 1..Len(calls) :
                 calls[i].tool \notin { "add_new_customer", "update_inventory",
                                        "update_customer_credit",
                                        "respond_confirmation_email" }

\* C23: with a finite inbox, no arrivals and no stage raising,
\* run_till_mail_read eventually returns, and when it has returned no
\* unread message of another sender is left in the inbox.
C23_LoopDrainsInbox ==
    /\ <>(pc = "exited")
    /\ [](pc = "exited" => \A m \in inbox : FromAccount(m))

RunStarts == pc = "fetch" /\ pc' = "classify"

\* C24: a run starts only from a fetch made after the run before it has
\* returned and its message has been marked read; while a run is in
\* progress, the approval gate's polling included, the message in flight
\* stays the same and no other run starts.
C24_OneMessageAtATime ==
    [][ /\ RunStarts => (current = 0 \/ current \notin inbox)
        /\ (current' # current) => RunStarts
        /\ (pc' = "classify" /\ pc # "classify") => pc = "fetch"
        /\ (Len(stages') < Len(stages)) => RunStarts
        /\ (processed' # processed) => (pc = "mark" /\ pc' = "fetch") ]_vars

C24_Witness ==
    /\ processed = 1
    /\ pc = "polling"
    /\ elapsed > 0
    /\ current \in inbox
    /\ Cardinality(inbox) = 1

\* C25: in a run whose decision is UNFULFILLABLE, update_inventory,
\* update_customer_credit and add_new_customer are never called and the
\* stores do not change; the only call is the one rejection email.
C25_RejectionOnlyNotifies ==
    /\ [](decision.status = "UNFULFILLABLE"
            => /\ ~Invoked("fulfiller")
               /\ \A i \in 1..Len(calls) : calls[i].tool = "respond_unfulfillable_email"
               /\ Len(calls) = (IF Invoked("rejector") THEN 1 ELSE 0))
    /\ [][decision.status = "UNFULFILLABLE" => UNCHANGED storeVars]_vars

C25_Witness ==
    /\ Invoked("rejector")
    /\ pc = "mark"
    /\ decision.status = "UNFULFILLABLE"
    /\ Called("respond_unfulfillable_email")
    /\ stock = InitialStock

GateStep == pc = "ground" /\ pc' \in {"decide", "mark"}

C28_MarkedIsProcessed ==
    (pc = "mark")
        => /\ classified.has_is_po => classified.email = current
           /\ (Invoked("parser") /\ ~SecurityViolationParsed) => parsed.email_id = current

\* C29: get_approval_from_slack returns True only on a poll that succeeded
\* before the timeout and whose thread holds, after the request message, a
\* reply with an approve keyword as a whole word; the request text alone
\* and failed polls never give an approval.
C29_ApprovalNeedsApproveReply ==
    (approved = "true")
        => /\ elapsed < Timeout
           /\ PollChannel = PostChannel
           /\ \E i \in 1..Len(thread) :
                 thread[i] \in ApproveOnlyReplies \cup BothKeywordReplies

C29_Witness ==
    /\ approved = "true"
    /\ elapsed > 0
    /\ Len(thread) = 2
    /\ thread[1] \in NoKeywordReplies
    /\ thread[2] \in BothKeywordReplies

\* C30: within one call of send_confirmation_email_with_approval the channel
\* polled for replies is the channel the request was posted to, whether or
\* not SLACK_APPROVAL_CHANNEL is set.
C30_PolledIsPosted ==
    (pc = "polling") => PollChannel = PostChannel

====
